---- MODULE Spec2Model ----
(***************************************************************************)
(* Model of the step-wise Sudoku explanation solvers of sudoku_solver.py   *)
(* (ZebraTutorSolver, DetailedZebraTutorSolver, AlternativeSolver,         *)
(* StrategiesSolver, HybridSolver), their Worker pool, the cost function   *)
(* of sudoku_kb.py and the Solution recorder of solution.py.               *)
(*                                                                         *)
(* The IDP engine is an external oracle: get_unsat_core returns any proof  *)
(* text of Cores (the empty text is a failed call), get_ignored_cells any  *)
(* list of IgnoredLists (the empty list is a failed call), the naked and   *)
(* hidden single detectors return any short list of empty positions, and   *)
(* get_solution returns the one complete grid.                             *)
(*                                                                         *)
(* Spec and ResumeSpec run solve_stepwise on a 2x2 grid; FillSpec applies  *)
(* fill_input_queue on its own to candidate lists of the 9x9 grid.         *)
(***************************************************************************)
EXTENDS Integers, Sequences, FiniteSets, TLC

\* ------------------------------------------------------------------ bounds
\* largest nr_threads tried
MaxThreads == 2
\* largest max_steps tried
MaxSteps == 3
\* values are 1..MaxValue (the program's range(1, 10) scaled down)
MaxValue == 2
\* longest list a strategy detector returns
MaxHits == 2
\* most steps in a loaded partial solution
MaxLoaded == 1
\* most work of a run tried: threads x open cells x rounds x calls per cell
MaxLoad == 9
\* longest candidate list fill_input_queue is applied to on its own
MaxFill == 50

\* the side of the grid: range(0, 9)
GridSide == 9
\* the largest selective_threshold run_solver accepts
MaxPercent == 100

\* math.inf, the cost of a candidate that was never evaluated
Inf == -1

\* None (no cell)
NoneCell == <<>>

Threads == 1..MaxThreads

\* ------------------------------------------------------------- sequences
Range(s) == {s[i] : i \in DOMAIN s}

\* the sequences without repetition of length 1..n over S
RECURSIVE DistinctSeqs(_, _)
DistinctSeqs(S, n) ==
    IF n = 0 \/ S = {} THEN {}
    ELSE {<<x>> : x \in S}
         \cup UNION {{<<x>> \o t : t \in DistinctSeqs(S \ {x}, n - 1)} : x \in S}

Permutations_(S) == {s \in DistinctSeqs(S, Cardinality(S)) : Len(s) = Cardinality(S)}

\* tuple order of Python on cells (row, col, value)
CellLess(a, b) ==
    \/ a[1] < b[1]
    \/ a[1] = b[1] /\ a[2] < b[2]
    \/ a[1] = b[1] /\ a[2] = b[2] /\ a[3] < b[3]

\* x < y on costs, math.inf above every number
CostLess(x, y) ==
    IF x = Inf THEN FALSE ELSE IF y = Inf THEN TRUE ELSE x < y

\* insert the cell x into the sorted list s after every cell not greater
RECURSIVE InsertCell(_, _)
InsertCell(x, s) ==
    IF s = <<>> THEN <<x>>
    ELSE IF CellLess(x, Head(s)) THEN <<x>> \o s
    ELSE <<Head(s)>> \o InsertCell(x, Tail(s))

\* list.sort() on a list of cells
RECURSIVE SortCells(_)
SortCells(s) ==
    IF s = <<>> THEN <<>>
    ELSE InsertCell(s[Len(s)], SortCells(SubSeq(s, 1, Len(s) - 1)))

\* the key of sorted(): x['cost']
CandLess(a, b) == CostLess(a.cost, b.cost)

\* insert the candidate x after every candidate not more expensive, which
\* keeps candidates of equal cost in their order (sorted() is stable)
RECURSIVE InsertCand(_, _)
InsertCand(x, s) ==
    IF s = <<>> THEN <<x>>
    ELSE IF CandLess(x, Head(s)) THEN <<x>> \o s
    ELSE <<Head(s)>> \o InsertCand(x, Tail(s))

\* sorted(self.to_calculate, key=lambda x: x['cost'])
RECURSIVE SortByCost(_)
SortByCost(tc) ==
    IF tc = <<>> THEN <<>>
    ELSE InsertCand(tc[Len(tc)], SortByCost(SubSeq(tc, 1, Len(tc) - 1)))

\* [item for item in to_calculate if item['cell'] != cell]
RemoveCell(tc, cell) == SelectSeq(tc, LAMBDA item : item.cell # cell)

\* ------------------------------------------------------ the knowledge base
\* the keys of SudokuKB.rules, in the order of the dict
RuleOrder == <<"normal", "thermo", "killer">>

\* SudokuKB.rule_keywords
RuleKeywords(rule) ==
    IF rule = "normal" THEN <<"sameRow", "sameCol", "sameBox">>
    ELSE IF rule = "thermo" THEN <<"thermo">>
    ELSE <<"cage">>

RECURSIVE CostKeywordsLoop(_, _)
CostKeywordsLoop(order, rs) ==
    IF order = <<>> THEN <<>>
    ELSE (IF rs[Head(order)] THEN RuleKeywords(Head(order)) ELSE <<>>)
         \o CostKeywordsLoop(Tail(order), rs)

\* SudokuKB.get_cost_keywords for the rules dict rs
get_cost_keywords(rs) == CostKeywordsLoop(RuleOrder, rs)

\* SudokuKB.rules after add_rule('normal') (run_solver.py)
NormalRules == [r \in Range(RuleOrder) |-> r = "normal"]

\* SudokuKB.__init__: self.rules
NoRules == [r \in Range(RuleOrder) |-> FALSE]

\* add_rule setting the key before it looks at it
AddRuleAnyway(rs, rule) ==
    [rules |-> (rule :> TRUE) @@ rs, raised |-> rule \notin DOMAIN rs]

\* SudokuKB.add_rule: the rules after the call, and whether UnsupportedRule
\* was raised
add_rule(rs, rule) ==
    IF rule \in DOMAIN rs
    THEN [rules |-> [rs EXCEPT ![rule] = TRUE], raised |-> FALSE]
    ELSE [rules |-> rs, raised |-> TRUE]

\* SudokuKB.get_cost_keywords with the rule 'normal' added (run_solver.py)
CostKeywords == get_cost_keywords(NormalRules)

Atom(kw, args) == [kw |-> kw, args |-> args]

\* the (row, col) pairs of one matched atom: range(0, len(numbers)-1, 2)
AtomCells(a) ==
    LET n == Len(a.args)
        k == n \div 2
    IN  [i \in 1..k |-> <<a.args[2 * i - 1], a.args[2 * i]>>]

\* used_cells.append without the test `not in used_cells`
AppendAll(used, cells) == used \o cells

RECURSIVE AppendNew(_, _)
AppendNew(used, cells) ==
    IF cells = <<>> THEN used
    ELSE AppendNew(IF Head(cells) \in Range(used) THEN used
                   ELSE Append(used, Head(cells)),
                   Tail(cells))

RECURSIVE FindCellsKw(_, _, _)
FindCellsKw(core, kw, used) ==
    IF core = <<>> THEN used
    ELSE FindCellsKw(Tail(core), kw,
                     IF Head(core).kw = kw
                     THEN AppendNew(used, AtomCells(Head(core)))
                     ELSE used)

RECURSIVE FindCellsLoop(_, _, _)
FindCellsLoop(core, keywords, used) ==
    IF keywords = <<>> THEN used
    ELSE FindCellsLoop(core, Tail(keywords),
                       FindCellsKw(core, Head(keywords), used))

\* find_cells(core, keywords): the distinct cells, keyword by keyword
find_cells(core, keywords) ==
    FindCellsLoop(core, Append(keywords, "gridValue"), <<>>)

\* len(re.findall(keyword, core))
CountKw(core, kw) == Len(SelectSeq(core, LAMBDA a : a.kw = kw))

\* a cost divided, not multiplied, by the occurrences of each keyword
RECURSIVE CostLoopDivide(_, _, _)
CostLoopDivide(core, keywords, cost) ==
    IF keywords = <<>> THEN cost
    ELSE CostLoopDivide(core, Tail(keywords),
                        cost \div (CountKw(core, Head(keywords)) + 1))

RECURSIVE CostLoop(_, _, _)
CostLoop(core, keywords, cost) ==
    IF keywords = <<>> THEN cost
    ELSE CostLoop(core, Tail(keywords),
                  cost * (CountKw(core, Head(keywords)) + 1))

\* cost_function(core, keywords)
cost_function(core, keywords) ==
    CostLoop(core, keywords, Len(find_cells(core, keywords)))

\* SudokuKB.get_core_cost
get_core_cost(core) == cost_function(core, CostKeywords)

\* the proof texts the engine answers with; the first is a failed call
CoreFail == <<>>
CoreOne == <<Atom("gridValue", <<0, 1, 2>>)>>
CoreFour == <<Atom("sameRow", <<0, 0, 0, 1>>), Atom("gridValue", <<0, 1, 2>>)>>
Cores == {CoreFail, CoreOne, CoreFour}

\* SudokuKB.get_solution: the solved grid (a 2x2 Latin square)
CompleteGrid == <<<<0, 0, 1>>, <<0, 1, 2>>, <<1, 0, 2>>, <<1, 1, 1>>>>

\* the puzzles tried: the given cells, in file order
Givens == { <<<<1, 1, 1>>>>,
            <<<<0, 0, 1>>, <<1, 1, 1>>>>,
            <<<<0, 0, 1>>, <<0, 1, 2>>, <<1, 0, 2>>>> }

\* selective_threshold values tried (percent)
Thresholds == {0, 50, 100}

Variants == {"zebratutor", "detailed", "alternative", "strategies", "hybrid"}

\* the variants whose fill_input_queue reads the threshold in a round that
\* comes after first_step_done is set; the others run with the default of 100
ThresholdVariants == {"zebratutor", "detailed"}

\* what get_ignored_cells answers with: the values of ignored(Row,Col) of
\* the minimal model; the empty list is a failed call
IgnoredNone == <<>>
IgnoredOne == <<<<0, 1>>>>
IgnoredTwo == <<<<0, 1>>, <<1, 0>>>>
IgnoredLists == {IgnoredNone, IgnoredOne, IgnoredTwo}

\* the answers of the oracle function fn
Answers(fn) == IF fn = "get_ignored_cells" THEN IgnoredLists ELSE Cores

\* ------------------------------------------------------------------ state
VARIABLES
    variant,             \* the solver class that was constructed
    nr_threads,          \* SudokuSolver.nr_threads
    max_steps,           \* SudokuSolver.max_steps
    selective_threshold, \* SudokuSolver.selective_threshold
    initial_struct,      \* SudokuSolver.initial_struct
    complete_struct,     \* SudokuSolver.complete_struct
    current_struct,      \* SudokuSolver.current_struct
    to_calculate,        \* SudokuSolver.to_calculate: [cell, cost] records
    first_step_done,     \* SudokuSolver.first_step_done
    step_nr,             \* SudokuSolver.step_nr
    steps,               \* SudokuSolver.solution['steps']
    saved,               \* the steps in the solution file
    pc,                  \* where the driver is
    input_queue,         \* the round's task queue
    output_queue,        \* the round's result queue
    wpc,                 \* where each Worker is in run()
    witem,               \* the item each Worker holds
    stop_event,          \* Worker.stop_event
    timer,               \* the round's Timer: "off", "armed", "fired"
    strategy,            \* try_strategy: the strategy being applied
    cells_to_fill_in,    \* try_strategy: the detected cells not yet reached
    the_cell,            \* try_strategy: the cell being explained
    nr_loaded,           \* history: steps in the solution at construction
    given,               \* history: the given cells at construction
    last_round,          \* history: the round processed last
    nr_rounds,           \* history: the calls of next_step made
    queried,             \* history: the detector answers of this next_step
    rules,               \* SudokuKB.rules
    nr_values            \* the values of a cell are 1..nr_values

vars == <<variant, nr_threads, max_steps, selective_threshold, initial_struct,
          complete_struct, current_struct, to_calculate, first_step_done,
          step_nr, steps, saved, pc, input_queue, output_queue, wpc, witem,
          stop_event, timer, strategy, cells_to_fill_in, the_cell, nr_loaded,
          given, last_round, nr_rounds, queried, rules, nr_values>>

config == <<variant, nr_threads, max_steps, selective_threshold, nr_loaded,
            given, rules, nr_values>>
puzzle == <<initial_struct, complete_struct, current_struct, to_calculate,
            first_step_done, step_nr, steps, saved>>
pool == <<input_queue, output_queue, wpc, witem, stop_event, timer>>
trying == <<strategy, cells_to_fill_in, the_cell>>

NoItem == [fn |-> "none", cell |-> NoneCell, negate |-> FALSE]
NoRound == [kind |-> "none", results |-> <<>>, before |-> <<>>,
            done |-> FALSE, stopped |-> FALSE]

Workers == 1..nr_threads

\* range(1, 10), scaled down
Values == 1..nr_values

\* no detector was asked yet
NoQuery == <<>>

\* ------------------------------------------------------------- solution.py
\* add_step appending the step a second time
AddStepTwice(sol, nr, cell, used_cells, current_structure) ==
    LET step == [step_nr |-> nr, cell |-> cell, used_cells |-> used_cells,
                 current_structure |-> current_structure]
    IN  sol \o <<step, step>>

\* add_step recording the number of the step to come
AddStepNumberAhead(sol, nr, cell, used_cells, current_structure) ==
    Append(sol, [step_nr |-> nr + 1, cell |-> cell, used_cells |-> used_cells,
                 current_structure |-> current_structure])

\* add_step storing the list current_struct itself, not a copy of it: the
\* steps recorded so far then show the structure of the newest step
AddStepSharedSnapshot(sol, nr, cell, used_cells, current_structure) ==
    Append([i \in DOMAIN sol |->
               [sol[i] EXCEPT !.current_structure = current_structure]],
           [step_nr |-> nr, cell |-> cell, used_cells |-> used_cells,
            current_structure |-> current_structure])

\* Solution.add_step
add_step(sol, nr, cell, used_cells, current_structure) ==
    Append(sol, [step_nr |-> nr, cell |-> cell, used_cells |-> used_cells,
                 current_structure |-> current_structure])

\* Solution.get_last_step: highest_step_nr is never raised, so every step
\* with a positive number replaces last_step
RECURSIVE GetLastLoop(_, _)
GetLastLoop(sol, last) ==
    IF sol = <<>> THEN last
    ELSE GetLastLoop(Tail(sol), IF Head(sol).step_nr > 0 THEN Head(sol) ELSE last)

get_last_step(sol) == GetLastLoop(sol, [step_nr |-> 0])

\* the partial solutions an earlier run over the given cells g can have
\* saved: consecutive steps, each snapshot the structure before its cell
LoadedStep(g, cs, i) ==
    [step_nr |-> i, cell |-> cs[i],
     used_cells |-> <<[value |-> cs[i][3],
                       cells |-> find_cells(CoreOne, CostKeywords)]>>,
     current_structure |-> SortCells(g) \o SubSeq(cs, 1, i - 1)]

LoadedSolutions(g) ==
    {[i \in 1..Len(cs) |-> LoadedStep(g, cs, i)] :
        cs \in DistinctSeqs(Range(CompleteGrid) \ Range(g), MaxLoaded)}

\* --------------------------------------------------------- SudokuSolver
\* the oracle calls a round makes for one cell: one core per candidate in
\* fill_input_queue, one per other value in try_strategy
TasksPerCell(v) ==
    IF v \in {"zebratutor", "alternative"} THEN 1 ELSE nr_values - 1

\* SudokuSolver.__init__, the solution argument None (fresh) or loaded
Construct(fresh) ==
    /\ variant \in Variants
    /\ rules = NormalRules
    /\ nr_values = MaxValue
    /\ queried = NoQuery
    /\ nr_threads \in Threads
    /\ max_steps \in 1..MaxSteps
    /\ selective_threshold \in IF variant \in ThresholdVariants THEN Thresholds
                              ELSE {100}
    /\ initial_struct \in Givens
    /\ given = initial_struct
    /\ LET open == Len(CompleteGrid) - Len(initial_struct)
           rounds == IF max_steps < open THEN max_steps ELSE open
       IN  nr_threads * open * rounds * TasksPerCell(variant) <= MaxLoad
    /\ steps \in IF fresh THEN {<<>>} ELSE LoadedSolutions(initial_struct)
    /\ nr_loaded = Len(steps)
    /\ saved = steps
    /\ complete_struct = <<>>
    /\ to_calculate = <<>>
    /\ first_step_done = FALSE
    /\ current_struct = IF steps = <<>> THEN <<>>
                        ELSE get_last_step(steps).current_structure
    /\ step_nr = IF steps = <<>> THEN 1 ELSE get_last_step(steps).step_nr + 1
    /\ pc = "constructed"
    /\ input_queue = <<>>
    /\ output_queue = <<>>
    /\ wpc = [w \in Threads |-> "idle"]
    /\ witem = [w \in Threads |-> NoItem]
    /\ stop_event = [w \in Threads |-> FALSE]
    /\ timer = "off"
    /\ strategy = "none"
    /\ cells_to_fill_in = <<>>
    /\ the_cell = NoneCell
    /\ last_round = NoRound
    /\ nr_rounds = 0

Init == Construct(TRUE)

InitResume == Construct(FALSE)

\* solve_stepwise up to its loop; list(set(...)) comes in any order
SolveStepwise ==
    /\ pc = "constructed"
    /\ current_struct' = SortCells(initial_struct)
    /\ initial_struct' = current_struct'
    /\ complete_struct' = SortCells(CompleteGrid)
    /\ \E order \in Permutations_(Range(CompleteGrid) \ Range(initial_struct)) :
          to_calculate' = [i \in DOMAIN order |-> [cell |-> order[i], cost |-> Inf]]
    /\ pc' = "loop"
    /\ UNCHANGED <<config, nr_rounds, queried, first_step_done, step_nr, steps, saved, pool, trying,
                   last_round>>

\* while len(self.current_struct) != len(self.complete_struct)
LoopCondition == Len(current_struct) # Len(complete_struct)

\* the loop body is entered
LoopContinue == pc = "loop" /\ LoopCondition /\ ~(step_nr > max_steps)

\* the loop condition fails; run_solver.main saves once more
ExitDone ==
    /\ pc = "loop"
    /\ ~LoopCondition
    /\ pc' = "done"
    /\ saved' = steps
    /\ UNCHANGED <<config, nr_rounds, queried, initial_struct, complete_struct, current_struct,
                   to_calculate, first_step_done, step_nr, steps, pool, trying,
                   last_round>>

\* if self.step_nr > self.max_steps: break
ExitAborted ==
    /\ pc = "loop"
    /\ LoopCondition
    /\ step_nr > max_steps
    /\ pc' = "aborted"
    /\ saved' = steps
    /\ UNCHANGED <<config, nr_rounds, queried, initial_struct, complete_struct, current_struct,
                   to_calculate, first_step_done, step_nr, steps, pool, trying,
                   last_round>>

\* ------------------------------------------------------------------ Worker
\* the loop test without its stop_event part
WorkerCheckIgnoresStop(w) ==
    /\ pc \in {"join", "sjoin"}
    /\ wpc[w] = "check"
    /\ wpc' = [wpc EXCEPT ![w] = IF input_queue # <<>> THEN "get" ELSE "done"]
    /\ UNCHANGED <<config, nr_rounds, queried, puzzle, pc, input_queue, output_queue, witem,
                   stop_event, timer, trying, last_round>>

\* while not self.input_queue.empty() and not self.stop_event.is_set()
WorkerCheck(w) ==
    /\ pc \in {"join", "sjoin"}
    /\ wpc[w] = "check"
    /\ wpc' = [wpc EXCEPT ![w] =
                 IF input_queue # <<>> /\ ~stop_event[w] THEN "get" ELSE "done"]
    /\ UNCHANGED <<config, nr_rounds, queried, puzzle, pc, input_queue, output_queue, witem,
                   stop_event, timer, trying, last_round>>

\* a get() that takes any item of the queue, not the oldest
WorkerGetAny(w) ==
    /\ pc \in {"join", "sjoin"}
    /\ wpc[w] = "get"
    /\ \E i \in DOMAIN input_queue :
          /\ witem' = [witem EXCEPT ![w] = input_queue[i]]
          /\ input_queue' = SubSeq(input_queue, 1, i - 1)
                               \o SubSeq(input_queue, i + 1, Len(input_queue))
    /\ wpc' = [wpc EXCEPT ![w] = "call"]
    /\ UNCHANGED <<config, nr_rounds, queried, puzzle, pc, output_queue, stop_event, timer, trying,
                   last_round>>

\* item = self.input_queue.get(), which blocks while the queue is empty
WorkerGet(w) ==
    /\ pc \in {"join", "sjoin"}
    /\ wpc[w] = "get"
    /\ input_queue # <<>>
    /\ witem' = [witem EXCEPT ![w] = Head(input_queue)]
    /\ input_queue' = Tail(input_queue)
    /\ wpc' = [wpc EXCEPT ![w] = "call"]
    /\ UNCHANGED <<config, nr_rounds, queried, puzzle, pc, output_queue, stop_event, timer, trying,
                   last_round>>

\* a worker that also stores the cost of its result with the candidates
WorkerCallWritesCost(w) ==
    /\ pc \in {"join", "sjoin"}
    /\ wpc[w] = "call"
    /\ \E core \in Answers(witem[w].fn) :
          /\ output_queue' = Append(output_queue,
                                    [core |-> core, cell |-> witem[w].cell])
          /\ to_calculate' =
                [i \in DOMAIN to_calculate |->
                    IF to_calculate[i].cell = witem[w].cell
                    THEN [to_calculate[i] EXCEPT !.cost = Len(core)]
                    ELSE to_calculate[i]]
    /\ witem' = [witem EXCEPT ![w] = NoItem]
    /\ wpc' = [wpc EXCEPT ![w] = "check"]
    /\ UNCHANGED <<config, nr_rounds, queried, initial_struct, complete_struct,
                   current_struct, first_step_done, step_nr, steps, saved, pc,
                   input_queue, stop_event, timer, trying, last_round>>

\* a worker that puts its result twice
WorkerCallPutsTwice(w) ==
    /\ pc \in {"join", "sjoin"}
    /\ wpc[w] = "call"
    /\ \E core \in Answers(witem[w].fn) :
          output_queue' = output_queue
                             \o <<[core |-> core, cell |-> witem[w].cell],
                                  [core |-> core, cell |-> witem[w].cell]>>
    /\ witem' = [witem EXCEPT ![w] = NoItem]
    /\ wpc' = [wpc EXCEPT ![w] = "check"]
    /\ UNCHANGED <<config, nr_rounds, queried, puzzle, pc, input_queue, stop_event, timer, trying,
                   last_round>>

\* result = item[0](*item[1]); self.output_queue.put(result)
WorkerCall(w) ==
    /\ pc \in {"join", "sjoin"}
    /\ wpc[w] = "call"
    /\ \E core \in Answers(witem[w].fn) :
          output_queue' = Append(output_queue,
                                 [core |-> core, cell |-> witem[w].cell])
    /\ witem' = [witem EXCEPT ![w] = NoItem]
    /\ wpc' = [wpc EXCEPT ![w] = "check"]
    /\ UNCHANGED <<config, nr_rounds, queried, puzzle, pc, input_queue, stop_event, timer, trying,
                   last_round>>

\* the Timer runs stop_workers(workers)
stop_workers ==
    /\ pc = "join"
    /\ timer = "armed"
    /\ stop_event' = [w \in Threads |-> w \in Workers]
    /\ timer' = "fired"
    /\ UNCHANGED <<config, nr_rounds, queried, puzzle, pc, input_queue, output_queue, wpc, witem,
                   trying, last_round>>

\* join() called on the first worker only
FirstJoined == wpc[1] = "done"

\* worker.join() returns for every worker
AllJoined == \A w \in Workers : wpc[w] = "done"

\* a worker waits in get() on a queue nobody fills again
Blocked(w) == wpc[w] = "get" /\ input_queue = <<>>

\* ------------------------------------------------------- ZebraTutorSolver
\* threshold / 100 * n is computed in binary floating point: for these
\* (threshold, n), of the whole percentages and the lists of up to 81
\* candidates, the product comes out just above the whole number it equals
FloatRoundsUp == {<<14, 50>>, <<28, 25>>, <<28, 50>>, <<28, 75>>,
                  <<56, 25>>, <<56, 50>>, <<56, 75>>, <<68, 75>>}

\* the least whole number not below threshold * n / 100
ExactCeil(threshold, n) == (threshold * n + 99) \div 100

\* math.ceil(self.selective_threshold / 100 * len(to_calculate))
MaxNrCores(threshold, n) ==
    ExactCeil(threshold, n) + IF <<threshold, n>> \in FloatRoundsUp THEN 1 ELSE 0

\* the number of candidates the loop reaches before its break
NrSubmitted(tc, done, threshold) ==
    IF done /\ MaxNrCores(threshold, Len(tc)) < Len(tc)
    THEN MaxNrCores(threshold, Len(tc)) ELSE Len(tc)

\* fill_input_queue with the test of first_step_done left out
FillAlwaysThreshold(tc, done, threshold) ==
    [i \in 1..NrSubmitted(tc, TRUE, threshold) |->
        [fn |-> "get_unsat_core", cell |-> tc[i].cell, negate |-> TRUE]]

\* ZebraTutorSolver.fill_input_queue
fill_input_queue(tc, done, threshold) ==
    LET n == NrSubmitted(tc, done, threshold)
    IN  [i \in 1..n |-> [fn |-> "get_unsat_core", cell |-> tc[i].cell,
                         negate |-> TRUE]]

\* for j in range(1, 10), without the test of cell[2]
EveryValue(c) == [i \in Values |-> i]

\* for j in range(1, 10): if j == cell[2]: continue
OtherValues(c) == SelectSeq([i \in Values |-> i], LAMBDA i : i # c[3])

\* the tasks of one candidate: every other value of its position, asserted
ValueTasks(c) ==
    [k \in DOMAIN OtherValues(c) |->
        [fn |-> "get_unsat_core", cell |-> <<c[1], c[2], OtherValues(c)[k]>>,
         negate |-> FALSE]]

RECURSIVE DetailedFillLoop(_, _)
DetailedFillLoop(tc, n) ==
    IF n = 0 THEN <<>>
    ELSE DetailedFillLoop(tc, n - 1) \o ValueTasks(tc[n].cell)

\* DetailedZebraTutorSolver.fill_input_queue
DetailedFillInputQueue(tc, done, threshold) ==
    DetailedFillLoop(tc, NrSubmitted(tc, done, threshold))

\* AlternativeSolver.fill_input_queue: a task for every item of to_calculate
AlternativeFillInputQueue(tc) ==
    [i \in DOMAIN tc |-> [fn |-> "get_ignored_cells", cell |-> tc[i].cell,
                          negate |-> FALSE]]

\* self.fill_input_queue(self.to_calculate) of the solver class v
FillInputQueueOf(v, tc, done, threshold) ==
    IF v = "detailed" THEN DetailedFillInputQueue(tc, done, threshold)
    ELSE IF v = "alternative" THEN AlternativeFillInputQueue(tc)
    ELSE fill_input_queue(tc, done, threshold)

\* easiest_step before the first result
EasiestInit == [core |-> <<>>, cost |-> Inf, cell |-> <<0, 0, 0>>]

\* the cost stored with every candidate, whichever cell the result is for
SetCostAll(tc, cell, cost) ==
    [i \in DOMAIN tc |-> [tc[i] EXCEPT !.cost = cost]]

\* other_cell['cost'] = cost for the candidates with that cell
SetCost(tc, cell, cost) ==
    [i \in DOMAIN tc |-> IF tc[i].cell = cell
                         THEN [tc[i] EXCEPT !.cost = cost] ELSE tc[i]]

\* the comparison turned round: if cost > easiest_step['cost']
NotCheaper(cost, easiest) ==
    easiest.cost = Inf \/ CostLess(easiest.cost, cost)

\* if cost < easiest_step['cost']
\* a cost that equals the cost of the easiest step replaces it as well
CheaperOrEqual(cost, easiest) == ~CostLess(easiest.cost, cost)

Cheaper(cost, easiest) == CostLess(cost, easiest.cost)

RECURSIVE ProcessLoop(_, _, _)
ProcessLoop(oq, tc, easiest) ==
    IF oq = <<>> THEN [easiest_step |-> easiest, to_calculate |-> tc]
    ELSE LET core == Head(oq).core
             cell == Head(oq).cell
             cost == get_core_cost(core)
         IN  IF cost = 0 THEN ProcessLoop(Tail(oq), tc, easiest)
             ELSE ProcessLoop(Tail(oq), SetCost(tc, cell, cost),
                              IF Cheaper(cost, easiest)
                              THEN [core |-> core, cost |-> cost, cell |-> cell]
                              ELSE easiest)

\* ZebraTutorSolver.process_output_queue
process_output_queue(oq, tc) == ProcessLoop(oq, tc, EasiestInit)

\* core_map[cell] = core: the core put last for the cell
LastCore(oq, cell) ==
    LET at == {i \in DOMAIN oq : oq[i].cell = cell}
    IN  oq[CHOOSE i \in at : \A j \in at : j <= i].core

\* core_map without its None entries, in the order of its keys (r, c, v)
CoreMap(oq) ==
    LET cs == SortCells(AppendNew(<<>>, [i \in DOMAIN oq |-> oq[i].cell]))
    IN  [k \in DOMAIN cs |-> [cell |-> cs[k], core |-> LastCore(oq, cs[k])]]

\* the entries of core_map at the position of cell
AtPosition(cm, cell) ==
    SelectSeq(cm, LAMBDA e : e.cell[1] = cell[1] /\ e.cell[2] = cell[2])

RECURSIVE Concat(_)
Concat(cm) == IF cm = <<>> THEN <<>> ELSE Head(cm).core \o Concat(Tail(cm))

\* single_core_map: per candidate the cores of its position, joined
SingleCoreMap(cm, tc) ==
    [k \in DOMAIN tc |-> [core |-> Concat(AtPosition(cm, tc[k].cell)),
                          cell |-> tc[k].cell]]

\* easiest_step['used_cells'] of DetailedZebraTutorSolver
DetailedUsedCells(cm, cell) ==
    LET at == AtPosition(cm, cell)
    IN  [k \in DOMAIN at |-> [value |-> at[k].cell[3],
                              cells |-> find_cells(at[k].core, CostKeywords)]]

\* DetailedZebraTutorSolver.process_output_queue
DetailedProcessOutputQueue(oq, tc) ==
    LET cm == CoreMap(oq)
        r == ProcessLoop(SingleCoreMap(cm, tc), tc, EasiestInit)
        e == r.easiest_step
    IN  [easiest_step |-> [core |-> e.core, cost |-> e.cost, cell |-> e.cell,
                           used_cells |-> DetailedUsedCells(cm, e.cell)],
         to_calculate |-> r.to_calculate]

\* AlternativeSolver.cost_function
AlternativeCost(ignored_cells) == Len(ignored_cells)

RECURSIVE AlternativeLoop(_, _, _)
AlternativeLoop(oq, tc, easiest) ==
    IF oq = <<>> THEN [easiest_step |-> easiest, to_calculate |-> tc]
    ELSE LET ignored_cells == Head(oq).core
             cell == Head(oq).cell
             cost == AlternativeCost(ignored_cells)
         IN  IF cost = 0 THEN AlternativeLoop(Tail(oq), tc, easiest)
             ELSE AlternativeLoop(Tail(oq), SetCost(tc, cell, cost),
                                  IF Cheaper(cost, easiest)
                                  THEN [core |-> easiest.core, cost |-> cost,
                                        cell |-> cell,
                                        used_cells |-> ignored_cells]
                                  ELSE easiest)

\* AlternativeSolver.process_output_queue
AlternativeProcessOutputQueue(oq, tc) == AlternativeLoop(oq, tc, EasiestInit)

\* self.process_output_queue(output_queue, self.to_calculate) of class v
ProcessOutputQueueOf(v, oq, tc) ==
    IF v = "detailed" THEN DetailedProcessOutputQueue(oq, tc)
    ELSE IF v = "alternative" THEN AlternativeProcessOutputQueue(oq, tc)
    ELSE process_output_queue(oq, tc)

\* the text put in place of a core when no core succeeded
CoreAllFailed == <<Atom("All failed cores, picking easiest", <<>>)>>

\* if easiest_step['cell'] is None: pick the so far easiest one
PickEasiest(easiest, tc) ==
    IF easiest.cell = NoneCell
    THEN [core |-> CoreAllFailed, cost |-> tc[1].cost, cell |-> tc[1].cell]
    ELSE easiest

\* ZebraTutorSolver.add_solution_step
ZebraAddSolutionStep(sol, step, nr, cur) ==
    add_step(sol, nr, step.cell,
             <<[value |-> step.cell[3],
                cells |-> find_cells(step.core, CostKeywords)]>>,
             cur)

\* StrategiesSolver.add_solution_step
StrategiesAddSolutionStep(sol, step, nr, cur) ==
    add_step(sol, nr, step.cell, step.used_cells, cur)

\* DetailedZebraTutorSolver.add_solution_step
DetailedAddSolutionStep(sol, step, nr, cur) ==
    add_step(sol, nr, step.cell, step.used_cells, cur)

\* AlternativeSolver.add_solution_step
AlternativeAddSolutionStep(sol, step, nr, cur) ==
    add_step(sol, nr, step.cell,
             <<[value |-> step.cell[3], cells |-> step.used_cells]>>, cur)

\* self.add_solution_step: HybridSolver(StrategiesSolver, ZebraTutorSolver)
\* resolves to the method of StrategiesSolver
add_solution_step(v, sol, step, nr, cur) ==
    IF v = "zebratutor" THEN ZebraAddSolutionStep(sol, step, nr, cur)
    ELSE IF v = "detailed" THEN DetailedAddSolutionStep(sol, step, nr, cur)
    ELSE IF v = "alternative" THEN AlternativeAddSolutionStep(sol, step, nr, cur)
    ELSE StrategiesAddSolutionStep(sol, step, nr, cur)

\* step['used_cells'] raises KeyError
AddStepRaises(v, step) ==
    v # "zebratutor" /\ "used_cells" \notin DOMAIN step

\* a Timer created and started in every round
TimerAlways(done) == "armed"

\* the Timer is created and started only if self.first_step_done
TimerStart(done) == IF done THEN "armed" ELSE "off"

\* the workers of a round are created and started
StartWorkers(tasks) ==
    /\ input_queue' = tasks
    /\ output_queue' = <<>>
    /\ wpc' = [w \in Threads |-> IF w \in Workers THEN "check" ELSE "idle"]
    /\ witem' = [w \in Threads |-> NoItem]
    /\ stop_event' = [w \in Threads |-> FALSE]

\* the round's queues and threads are dropped, the Timer is not cancelled
DropWorkersKeepTimer ==
    /\ input_queue' = <<>>
    /\ output_queue' = <<>>
    /\ wpc' = [w \in Threads |-> "idle"]
    /\ witem' = [w \in Threads |-> NoItem]
    /\ stop_event' = [w \in Threads |-> FALSE]
    /\ timer' = timer

\* the round's queues and threads are dropped
DropWorkers ==
    /\ input_queue' = <<>>
    /\ output_queue' = <<>>
    /\ wpc' = [w \in Threads |-> "idle"]
    /\ witem' = [w \in Threads |-> NoItem]
    /\ stop_event' = [w \in Threads |-> FALSE]
    /\ timer' = "off"

\* ZebraTutorSolver.next_step up to worker.join()
GreedyDispatch ==
    /\ to_calculate' = SortByCost(to_calculate)
    /\ StartWorkers(FillInputQueueOf(variant, to_calculate', first_step_done,
                                     selective_threshold))
    /\ timer' = TimerStart(first_step_done)
    /\ pc' = "join"
    /\ nr_rounds' = nr_rounds + 1
    /\ UNCHANGED <<config, initial_struct, complete_struct, current_struct,
                   first_step_done, step_nr, steps, saved, trying, last_round>>

\* ZebraTutorSolver.next_step from worker.join() on
GreedyCollect ==
    /\ pc = "join"
    /\ AllJoined
    /\ LET r == ProcessOutputQueueOf(variant, output_queue, to_calculate)
           easiest_step == PickEasiest(r.easiest_step, r.to_calculate)
       IN  /\ last_round' = [kind |-> "greedy", results |-> output_queue,
                             before |-> to_calculate,
                             done |-> first_step_done,
                             stopped |-> timer = "fired"]
           /\ IF AddStepRaises(variant, easiest_step)
              THEN /\ pc' = "error"
                   /\ to_calculate' = r.to_calculate
                   /\ UNCHANGED <<initial_struct, current_struct,
                                  first_step_done, step_nr, steps, saved>>
              ELSE /\ steps' = add_solution_step(variant, steps, easiest_step,
                                                 step_nr, current_struct)
                   /\ current_struct' = Append(current_struct, easiest_step.cell)
                   /\ initial_struct' = current_struct'
                   /\ to_calculate' = RemoveCell(r.to_calculate, easiest_step.cell)
                   /\ step_nr' = step_nr + 1
                   /\ first_step_done' = TRUE
                   /\ saved' = steps'
                   /\ pc' = "loop"
    /\ DropWorkers
    /\ UNCHANGED <<config, nr_rounds, queried, complete_struct, trying>>

\* ZebraTutorSolver.next_step called from the loop of solve_stepwise
ZebraNextStep ==
    /\ LoopContinue
    /\ variant \in {"zebratutor", "detailed", "alternative"}
    /\ GreedyDispatch
    /\ UNCHANGED queried

\* ------------------------------------------------------- StrategiesSolver
\* StrategiesSolver.get_value
RECURSIVE get_value(_, _)
get_value(complete, pos) ==
    IF complete = <<>> THEN 0
    ELSE IF pos[1] = Head(complete)[1] /\ pos[2] = Head(complete)[2]
         THEN Head(complete)[3]
         ELSE get_value(Tail(complete), pos)

\* StrategiesSolver.is_empty
is_empty(cur, pos) ==
    \A i \in DOMAIN cur : ~(pos[1] = cur[i][1] /\ pos[2] = cur[i][2])

\* what get_naked_singles / get_hidden_singles can answer: a list of
\* positions of the grid that hold no value yet, or the empty list
Detected(cur) ==
    {<<>>} \cup DistinctSeqs({<<c[1], c[2]>> : c \in {x \in Range(CompleteGrid) :
                                  is_empty(cur, <<x[1], x[2]>>)}}, MaxHits)

\* the queue try_strategy builds for one cell: every other value, asserted
StrategyTasks(c) ==
    LET others == SelectSeq([i \in Values |-> i], LAMBDA i : i # c[3])
    IN  [k \in DOMAIN others |->
            [fn |-> "get_unsat_core", cell |-> <<c[1], c[2], others[k]>>,
             negate |-> FALSE]]

\* try_strategy: the used_cells read from the output queue
UsedCells(oq) ==
    [k \in DOMAIN oq |-> [value |-> oq[k].cell[3],
                          cells |-> find_cells(oq[k].core, CostKeywords)]]

\* try_strategy: the loop over cells_to_fill_in reaches the next cell and
\* starts its workers
StrategyStart(cells) ==
    /\ the_cell' = <<Head(cells)[1], Head(cells)[2],
                 get_value(complete_struct, Head(cells))>>
    /\ cells_to_fill_in' = Tail(cells)
    /\ StartWorkers(StrategyTasks(the_cell'))
    /\ timer' = "off"
    /\ pc' = "sjoin"

\* try_strategy(name) with a detector that found cells
TryStrategyHit(name, cells) ==
    /\ cells # <<>>
    /\ strategy' = name
    /\ StrategyStart(cells)
    /\ nr_rounds' = nr_rounds + 1
    /\ UNCHANGED <<config, puzzle, last_round>>

\* the loop of try_strategy left after the first cell whatever the strategy
BreakAlways(name) == TRUE

\* only fill in one for hidden singles
BreakAfterOne(name) == name \in {"hidden_single"}

\* try_strategy from worker.join() on: the step of one cell, then the next
\* cell, or return True and save_solution() in next_step
StrategyCollect ==
    /\ pc = "sjoin"
    /\ AllJoined
    /\ steps' = add_solution_step(variant, steps,
                                  [cell |-> the_cell, used_cells |-> UsedCells(output_queue)],
                                  step_nr, current_struct)
    /\ current_struct' = Append(current_struct, the_cell)
    /\ initial_struct' = current_struct'
    /\ to_calculate' = RemoveCell(to_calculate, the_cell)
    /\ step_nr' = step_nr + 1
    /\ last_round' = [kind |-> strategy, results |-> output_queue,
                      before |-> to_calculate, done |-> first_step_done,
                      stopped |-> FALSE]
    /\ IF BreakAfterOne(strategy) \/ cells_to_fill_in = <<>>
       THEN /\ saved' = steps'
            /\ pc' = "loop"
            /\ strategy' = "none"
            /\ cells_to_fill_in' = <<>>
            /\ the_cell' = NoneCell
            /\ DropWorkers
       ELSE /\ StrategyStart(cells_to_fill_in)
            /\ UNCHANGED <<saved, strategy>>
    /\ UNCHANGED <<config, nr_rounds, queried, complete_struct, first_step_done>>

\* a fill_random that picks any cell of the solved grid
FillRandomAnyCell ==
    /\ IF to_calculate = <<>>
       THEN /\ pc' = "error"
            /\ UNCHANGED <<puzzle, last_round>>
       ELSE \E i \in DOMAIN complete_struct :
              LET c == complete_struct[i]
                  step == [cell |-> c,
                           used_cells |->
                              SelectSeq([x \in Values |-> [value |-> x, cells |-> <<>>]],
                                        LAMBDA u : u.value # c[3])]
              IN  /\ steps' = add_solution_step(variant, steps, step, step_nr,
                                                current_struct)
                  /\ current_struct' = Append(current_struct, c)
                  /\ initial_struct' = current_struct'
                  /\ to_calculate' = RemoveCell(to_calculate, c)
                  /\ step_nr' = step_nr + 1
                  /\ saved' = steps'
                  /\ last_round' = [kind |-> "random", results |-> <<>>,
                                    before |-> to_calculate,
                                    done |-> first_step_done,
                                    stopped |-> FALSE]
                  /\ pc' = "loop"
                  /\ UNCHANGED <<complete_struct, first_step_done>>
    /\ nr_rounds' = nr_rounds + 1
    /\ UNCHANGED <<config, pool, trying>>

\* StrategiesSolver.fill_random, then save_solution() in next_step
fill_random ==
    /\ IF to_calculate = <<>>
       THEN /\ pc' = "error"
            /\ UNCHANGED <<puzzle, last_round>>
       ELSE \E i \in DOMAIN to_calculate :
              LET c == to_calculate[i].cell
                  step == [cell |-> c,
                           used_cells |->
                              SelectSeq([x \in Values |-> [value |-> x, cells |-> <<>>]],
                                        LAMBDA u : u.value # c[3])]
              IN  /\ steps' = add_solution_step(variant, steps, step, step_nr,
                                                current_struct)
                  /\ current_struct' = Append(current_struct, c)
                  /\ initial_struct' = current_struct'
                  /\ to_calculate' = RemoveCell(to_calculate, c)
                  /\ step_nr' = step_nr + 1
                  /\ saved' = steps'
                  /\ last_round' = [kind |-> "random", results |-> <<>>,
                                    before |-> to_calculate,
                                    done |-> first_step_done,
                                    stopped |-> FALSE]
                  /\ pc' = "loop"
                  /\ UNCHANGED <<complete_struct, first_step_done>>
    /\ nr_rounds' = nr_rounds + 1
    /\ UNCHANGED <<config, pool, trying>>

\* the answer of a detector, as try_strategy gets it
Answer(name, cells) == [name |-> name, found |-> cells]

\* both detectors were asked, the naked single one first, and found nothing
BothMissed == <<Answer("naked_single", <<>>), Answer("hidden_single", <<>>)>>

\* next_step asking the hidden single detector first
NextStepHiddenFirst ==
    /\ LoopContinue
    /\ variant \in {"strategies", "hybrid"}
    /\ \E cells \in Detected(current_struct) :
          /\ TryStrategyHit("hidden_single", cells)
          /\ queried' = <<Answer("hidden_single", cells)>>

\* next_step of StrategiesSolver and HybridSolver: naked singles found
NextStepNaked ==
    /\ LoopContinue
    /\ variant \in {"strategies", "hybrid"}
    /\ \E cells \in Detected(current_struct) :
          /\ TryStrategyHit("naked_single", cells)
          /\ queried' = <<Answer("naked_single", cells)>>

\* next_step of StrategiesSolver and HybridSolver: no naked single, hidden
\* singles found
NextStepHidden ==
    /\ LoopContinue
    /\ variant \in {"strategies", "hybrid"}
    /\ \E cells \in Detected(current_struct) :
          /\ TryStrategyHit("hidden_single", cells)
          /\ queried' = <<Answer("naked_single", <<>>),
                          Answer("hidden_single", cells)>>

\* StrategiesSolver.next_step: both detectors found nothing
NextStepRandom ==
    /\ LoopContinue
    /\ variant = "strategies"
    /\ fill_random
    /\ queried' = BothMissed

\* HybridSolver.next_step: both detectors found nothing, do_unsat_cores
do_unsat_cores ==
    /\ LoopContinue
    /\ variant = "hybrid"
    /\ GreedyDispatch
    /\ queried' = BothMissed

Next ==
    \/ SolveStepwise
    \/ ExitDone
    \/ ExitAborted
    \/ ZebraNextStep
    \/ GreedyCollect
    \/ NextStepNaked
    \/ NextStepHidden
    \/ NextStepRandom
    \/ do_unsat_cores
    \/ StrategyCollect
    \/ stop_workers
    \/ \E w \in Workers : WorkerCheck(w)
    \/ \E w \in Workers : WorkerGet(w)
    \/ \E w \in Workers : WorkerCall(w)

Spec == Init /\ [][Next]_vars

ResumeSpec == InitResume /\ [][Next]_vars

\* ------------------------------------------- fill_input_queue on its own
\* a to_calculate list of n candidates of the 9x9 grid, as next_step sorts
\* it: ascending by cost
FillCandidates(n) ==
    [i \in 1..n |-> [cell |-> <<(i - 1) \div GridSide, (i - 1) % GridSide, 1>>,
                     cost |-> i]]

\* a solver of a threshold-reading or minimizing class in front of a round,
\* with any whole threshold run_solver accepts and any list of candidates
InitFill ==
    /\ variant \in {"zebratutor", "detailed", "alternative"}
    /\ rules = NormalRules
    /\ nr_values = MaxValue
    /\ queried = NoQuery
    /\ nr_threads = 1
    /\ max_steps = MaxSteps
    /\ selective_threshold \in 0..MaxPercent
    /\ initial_struct = <<>>
    /\ given = <<>>
    /\ steps = <<>>
    /\ nr_loaded = 0
    /\ saved = <<>>
    /\ complete_struct = <<>>
    /\ \E n \in 0..MaxFill : to_calculate = FillCandidates(n)
    /\ first_step_done \in BOOLEAN
    /\ current_struct = <<>>
    /\ step_nr = 1
    /\ pc = "fill"
    /\ input_queue = <<>>
    /\ output_queue = <<>>
    /\ wpc = [w \in Threads |-> "idle"]
    /\ witem = [w \in Threads |-> NoItem]
    /\ stop_event = [w \in Threads |-> FALSE]
    /\ timer = "off"
    /\ strategy = "none"
    /\ cells_to_fill_in = <<>>
    /\ the_cell = NoneCell
    /\ last_round = NoRound
    /\ nr_rounds = 0

\* input_queue = self.fill_input_queue(self.to_calculate)
FillInputQueue ==
    /\ pc = "fill"
    /\ input_queue' = FillInputQueueOf(variant, to_calculate, first_step_done,
                                       selective_threshold)
    /\ pc' = "filled"
    /\ UNCHANGED <<config, nr_rounds, queried, puzzle, output_queue, wpc, witem,
                   stop_event, timer, trying, last_round>>

FillSpec == InitFill /\ [][FillInputQueue]_vars

\* ------------------------------------------------ cost_function on its own
\* the longest proof tried, in atoms
MaxProof == 2

\* the atoms of the proofs tried: a value atom, two atoms of rule 'normal'
\* that share positions with it and with each other, a cage atom with its
\* CageID, and the word thermo without arguments
ProofAtoms ==
    {Atom("gridValue", <<0, 1, 2>>),
     Atom("sameRow", <<0, 0, 0, 1>>),
     Atom("sameCol", <<0, 1, 1, 1>>),
     Atom("cage", <<1, 0, 7>>),
     Atom("thermo", <<>>)}

\* the non-empty proofs of up to MaxProof atoms
Proofs == UNION {[1..n -> ProofAtoms] : n \in 1..MaxProof}

\* a knowledge base with any rules added, and two proofs to be costed
InitCost ==
    /\ variant = "zebratutor"
    /\ rules \in [Range(RuleOrder) -> BOOLEAN]
    /\ nr_values = MaxValue
    /\ queried = NoQuery
    /\ nr_threads = 1
    /\ max_steps = MaxSteps
    /\ selective_threshold = MaxPercent
    /\ initial_struct = <<>>
    /\ given = <<>>
    /\ steps = <<>>
    /\ nr_loaded = 0
    /\ saved = <<>>
    /\ complete_struct = <<>>
    /\ to_calculate = <<>>
    /\ first_step_done = FALSE
    /\ current_struct = <<>>
    /\ step_nr = 1
    /\ pc = "cost"
    /\ input_queue = <<>>
    /\ \E A, B \in Proofs :
          output_queue = <<[core |-> A, cell |-> NoneCell],
                           [core |-> B, cell |-> NoneCell]>>
    /\ wpc = [w \in Threads |-> "idle"]
    /\ witem = [w \in Threads |-> NoItem]
    /\ stop_event = [w \in Threads |-> FALSE]
    /\ timer = "off"
    /\ strategy = "none"
    /\ cells_to_fill_in = <<>>
    /\ the_cell = NoneCell
    /\ last_round = NoRound
    /\ nr_rounds = 0

\* cost_function(core, self.get_cost_keywords()) for the two proofs and for
\* the first joined with the second (single_core_map[other_cell] += core)
CostApply ==
    /\ pc = "cost"
    /\ LET A == output_queue[1].core
           B == output_queue[2].core
           keywords == get_cost_keywords(rules)
       IN  to_calculate' =
             <<[cell |-> NoneCell, cost |-> cost_function(A, keywords)],
               [cell |-> NoneCell, cost |-> cost_function(B, keywords)],
               [cell |-> NoneCell, cost |-> cost_function(A \o B, keywords)]>>
    /\ pc' = "costed"
    /\ UNCHANGED <<config, nr_rounds, queried, initial_struct, complete_struct,
                   current_struct, first_step_done, step_nr, steps, saved,
                   pool, trying, last_round>>

CostSpec == InitCost /\ [][CostApply]_vars

\* ------------------------------------- DetailedZebraTutorSolver on its own
\* a DetailedZebraTutorSolver with the values of range(1, 10), or with one
\* value more than the grid has, on the puzzles whose tasks stay within
\* MaxLoad; range(1, 10) is tried with one step, and the threshold, which
\* is read from the second round on, varies only where there can be one
InitAggregate ==
    /\ variant = "detailed"
    /\ rules = NormalRules
    /\ queried = NoQuery
    /\ nr_values \in {MaxValue + 1, GridSide}
    /\ nr_threads \in Threads
    /\ max_steps \in 1..MaxSteps
    /\ selective_threshold \in Thresholds
    /\ initial_struct \in Givens
    /\ given = initial_struct
    /\ LET open == Len(CompleteGrid) - Len(initial_struct)
           rounds == IF max_steps < open THEN max_steps ELSE open
       IN  nr_threads * open * rounds * TasksPerCell(variant) <= MaxLoad
    /\ nr_values = GridSide => max_steps = 1
    /\ max_steps = 1 => selective_threshold = MaxPercent
    /\ steps = <<>>
    /\ nr_loaded = 0
    /\ saved = <<>>
    /\ complete_struct = <<>>
    /\ to_calculate = <<>>
    /\ first_step_done = FALSE
    /\ current_struct = <<>>
    /\ step_nr = 1
    /\ pc = "constructed"
    /\ input_queue = <<>>
    /\ output_queue = <<>>
    /\ wpc = [w \in Threads |-> "idle"]
    /\ witem = [w \in Threads |-> NoItem]
    /\ stop_event = [w \in Threads |-> FALSE]
    /\ timer = "off"
    /\ strategy = "none"
    /\ cells_to_fill_in = <<>>
    /\ the_cell = NoneCell
    /\ last_round = NoRound
    /\ nr_rounds = 0

NextAggregate ==
    \/ SolveStepwise
    \/ ExitDone
    \/ ExitAborted
    \/ ZebraNextStep
    \/ GreedyCollect
    \/ stop_workers
    \/ \E w \in Workers : WorkerCheck(w)
    \/ \E w \in Workers : WorkerGet(w)
    \/ \E w \in Workers : WorkerCall(w)

AggregateSpec == InitAggregate /\ [][NextAggregate]_vars

\* ------------------------------------------- resuming from any loaded list
\* the longest list of steps loaded
MaxListed == 3

\* the lists of steps a solution file over the given cells g can hold: the
\* steps of an earlier run, in any order
ListedSolutions(g) ==
    UNION {{[i \in DOMAIN sol |-> sol[order[i]]] :
               order \in Permutations_(DOMAIN sol)} :
           sol \in {[i \in 1..Len(cs) |-> LoadedStep(g, cs, i)] :
                      cs \in DistinctSeqs(Range(CompleteGrid) \ Range(g),
                                          MaxListed)}}

\* run_solver before the solver is constructed: the given cells and a
\* loaded solution
InitLoad ==
    /\ variant = "strategies"
    /\ rules = NormalRules
    /\ nr_values = MaxValue
    /\ queried = NoQuery
    /\ nr_threads = 1
    /\ max_steps = MaxListed + MaxSteps
    /\ selective_threshold = MaxPercent
    /\ initial_struct \in Givens
    /\ given = initial_struct
    /\ steps \in ListedSolutions(initial_struct)
    /\ nr_loaded = Len(steps)
    /\ saved = steps
    /\ complete_struct = <<>>
    /\ to_calculate = <<>>
    /\ first_step_done = FALSE
    /\ current_struct = <<>>
    /\ step_nr = 1
    /\ pc = "load"
    /\ input_queue = <<>>
    /\ output_queue = <<>>
    /\ wpc = [w \in Threads |-> "idle"]
    /\ witem = [w \in Threads |-> NoItem]
    /\ stop_event = [w \in Threads |-> FALSE]
    /\ timer = "off"
    /\ strategy = "none"
    /\ cells_to_fill_in = <<>>
    /\ the_cell = NoneCell
    /\ last_round = NoRound
    /\ nr_rounds = 0

\* SudokuSolver.__init__ with a solution: last_step = get_last_step()
Load ==
    /\ pc = "load"
    /\ current_struct' = get_last_step(steps).current_structure
    /\ step_nr' = get_last_step(steps).step_nr + 1
    /\ pc' = "constructed"
    /\ UNCHANGED <<config, nr_rounds, queried, initial_struct, complete_struct,
                   to_calculate, first_step_done, steps, saved, pool, trying,
                   last_round>>

\* the resumed run of a StrategiesSolver whose detectors find nothing
NextLoad ==
    \/ Load
    \/ SolveStepwise
    \/ NextStepRandom

LoadSpec == InitLoad /\ [][NextLoad]_vars

\* ------------------------------------------------- configuration calls
\* the identifiers handed to add_rule: the keys of SudokuKB.rules and one
\* that is none of them
RuleIds == Range(RuleOrder) \cup {"diagonal"}

\* the names handed to try_strategy: the two it knows and one it does not
StrategyIds == {"naked_single", "hidden_single", "x_wing"}

\* a StrategiesSolver after construction, no rule added yet
InitConfig ==
    /\ variant = "strategies"
    /\ rules = NoRules
    /\ nr_values = MaxValue
    /\ queried = NoQuery
    /\ nr_threads \in Threads
    /\ max_steps \in 1..MaxSteps
    /\ selective_threshold = MaxPercent
    /\ initial_struct \in Givens
    /\ given = initial_struct
    /\ steps = <<>>
    /\ nr_loaded = 0
    /\ saved = steps
    /\ complete_struct = <<>>
    /\ to_calculate = <<>>
    /\ first_step_done = FALSE
    /\ current_struct = <<>>
    /\ step_nr = 1
    /\ pc = "constructed"
    /\ input_queue = <<>>
    /\ output_queue = <<>>
    /\ wpc = [w \in Threads |-> "idle"]
    /\ witem = [w \in Threads |-> NoItem]
    /\ stop_event = [w \in Threads |-> FALSE]
    /\ timer = "off"
    /\ strategy = "none"
    /\ cells_to_fill_in = <<>>
    /\ the_cell = NoneCell
    /\ last_round = NoRound
    /\ nr_rounds = 0

\* solver.kb.add_rule(rule); UnsupportedRule is not caught
AddRule ==
    /\ pc = "constructed"
    /\ \E rule \in RuleIds :
          /\ rules' = add_rule(rules, rule).rules
          /\ pc' = IF add_rule(rules, rule).raised THEN "UnsupportedRule"
                   ELSE pc
    /\ UNCHANGED <<variant, nr_threads, max_steps, selective_threshold,
                   nr_loaded, given, nr_values, nr_rounds, queried, puzzle,
                   pool, trying, last_round>>

\* run_solver.main without --thermo and --killer: solve_stepwise once
\* add_rule('normal') is done
SolveNormal ==
    /\ rules = NormalRules
    /\ SolveStepwise

\* try_strategy(name) in the loop of solve_stepwise: the name is not known
\* (raise), the detector finds nothing (return False), or it finds cells
TryStrategy ==
    /\ LoopContinue
    /\ \E name \in StrategyIds :
          IF name \notin {"naked_single", "hidden_single"}
          THEN /\ pc' = "Exception"
               /\ UNCHANGED <<config, nr_rounds, queried, puzzle, pool,
                              trying, last_round>>
          ELSE \E cells \in Detected(current_struct) :
                  /\ queried' = <<Answer(name, cells)>>
                  /\ IF cells = <<>>
                     THEN UNCHANGED <<config, nr_rounds, puzzle, pool, trying,
                                      last_round, pc>>
                     ELSE TryStrategyHit(name, cells)

NextConfig ==
    \/ AddRule
    \/ SolveNormal
    \/ TryStrategy
    \/ StrategyCollect
    \/ ExitDone
    \/ ExitAborted
    \/ \E w \in Workers : WorkerCheck(w)
    \/ \E w \in Workers : WorkerGet(w)
    \/ \E w \in Workers : WorkerCall(w)

ConfigSpec == InitConfig /\ [][NextConfig]_vars

\* ------------------------------------------------------------ properties
Cells(seq) == Range(seq)

Positions(cells) == {<<c[1], c[2]>> : c \in cells}

\* the cells of the Candidate list
CandidateCells == {to_calculate[i].cell : i \in DOMAIN to_calculate}

LastStep == steps[Len(steps)]

\* the costs of the results a round collected
ResultCost(results, i) == get_core_cost(results[i].core)

NonZero(results) == {i \in DOMAIN results : ResultCost(results, i) # 0}

\* the candidates of tc no other candidate of tc is cheaper than
Cheapest(tc) ==
    {tc[i].cell : i \in {k \in DOMAIN tc :
                            \A j \in DOMAIN tc : ~CostLess(tc[j].cost, tc[k].cost)}}

\* the last commit was made by a greedy round, which did not raise
GreedyCommitted == last_round.kind = "greedy" /\ pc # "error"

\* a worker can take its next step
CanStep(w) ==
    \/ wpc[w] \in {"check", "call"}
    \/ wpc[w] = "get" /\ input_queue # <<>>

\* C1: after a greedy round in which no collected result has a non-zero
\* cost, the committed cell is a candidate with the lowest cost stored
\* before the round.
C1_FallbackPicksEasiest ==
    (GreedyCommitted /\ NonZero(last_round.results) = {})
        => LastStep.cell \in Cheapest(last_round.before)

\* C2: after a baseline greedy round with at least one non-zero-cost
\* result, the committed cell is the cell of a collected result whose cost
\* is the least of the round's non-zero costs.
C2_MinimumCostSelection ==
    (variant = "zebratutor" /\ GreedyCommitted /\ NonZero(last_round.results) # {})
        => \E i \in NonZero(last_round.results) :
              /\ last_round.results[i].cell = LastStep.cell
              /\ \A j \in NonZero(last_round.results) :
                    ResultCost(last_round.results, i) <= ResultCost(last_round.results, j)

\* a round collected cost 4 for one cell and cost 1 for another, and the
\* cell of cost 1 was committed
C2_Witness ==
    /\ variant = "zebratutor"
    /\ pc = "loop"
    /\ last_round.kind = "greedy"
    /\ \E i, j \in DOMAIN last_round.results :
          /\ ResultCost(last_round.results, i) = 4
          /\ ResultCost(last_round.results, j) = 1
          /\ i < j
          /\ last_round.results[i].cell # last_round.results[j].cell
          /\ LastStep.cell = last_round.results[j].cell

\* C3: once solve_stepwise has computed CompleteStructure, every cell of
\* CurrentStructure is a cell of CompleteStructure.
C3_CurrentWithinComplete ==
    pc # "constructed" => Cells(current_struct) \subseteq Cells(complete_struct)

\* C4: at every round boundary the positions of the Candidate list are the
\* positions of CompleteStructure that CurrentStructure does not hold.
C4_CandidatesAreTheDifference ==
    pc = "loop"
        => Positions(CandidateCells)
             = Positions(Cells(complete_struct)) \ Positions(Cells(current_struct))

\* C5: while the driver waits in join, some worker can still take a step
\* unless all have ended: no round is left with a worker waiting for ever
\* on the task queue.
C5_RoundDispatchCompletes ==
    pc \in {"join", "sjoin"} => (AllJoined \/ \E w \in Workers : CanStep(w))

\* C6: the greedy round HybridSolver falls back to ends with exactly one
\* step appended, CurrentStructure one cell longer and step_nr advanced by
\* one, and not in an error.
C6_HybridFallbackCommits ==
    [][(variant = "hybrid" /\ pc = "join" /\ pc' # "join")
          => /\ pc' = "loop"
             /\ Len(steps') = Len(steps) + 1
             /\ Len(current_struct') = Len(current_struct) + 1
             /\ step_nr' = step_nr + 1]_vars

\* C7: in a run constructed from a saved solution, at the start of the
\* first round CurrentStructure holds the cell of every saved step and
\* none of them is a candidate.
C7_ResumeKeepsCommittedCells ==
    (pc = "loop" /\ nr_loaded > 0 /\ Len(steps) = nr_loaded)
        => \A i \in 1..nr_loaded :
              /\ steps[i].cell \in Cells(current_struct)
              /\ steps[i].cell \notin CandidateCells

\* C8: no step recorded by this run has a step number above max_steps.
C8_StepBudget ==
    \A i \in (nr_loaded + 1)..Len(steps) : steps[i].step_nr <= max_steps

\* C9: a fresh baseline run with max_steps = 1 and at least three
\* candidates does not get stuck in its round, ends in no state but
\* ABORTED, and is then one step and one cell further with candidates left.
C9_ScenarioC ==
    (variant = "zebratutor" /\ max_steps = 1 /\ nr_loaded = 0
        /\ Len(CompleteGrid) - Len(given) >= 3)
        => /\ pc = "join" => (AllJoined \/ \E w \in Workers : CanStep(w))
           /\ pc \notin {"done", "error"}
           /\ pc = "aborted"
                => /\ Len(steps) = 1
                   /\ to_calculate # <<>>
                   /\ Len(current_struct) = Len(given) + 1

\* C10: when the loop ends because the lengths agree, CurrentStructure
\* holds exactly the cells of CompleteStructure and no candidate is left.
C10_DoneMeansRevealed ==
    pc = "done"
        => /\ Cells(current_struct) = Cells(complete_struct)
           /\ to_calculate = <<>>

\* the solver classes whose next_step is ZebraTutorSolver.next_step
GreedyVariants == {"zebratutor", "detailed", "alternative"}

Min(a, b) == IF a < b THEN a ELSE b

\* the candidates solve_stepwise starts from
InitialCandidates == Len(CompleteGrid) - Len(given)

\* C11: with one worker a run of the greedy driver never ends in an error
\* and never waits for ever in join, every round it has finished has
\* committed exactly one step, and it makes at most
\* min(max_steps, number of initial candidates) rounds; so it reaches DONE
\* or ABORTED.
C11_ForwardProgress ==
    (variant \in GreedyVariants /\ nr_threads = 1 /\ nr_loaded = 0)
        => /\ pc # "error"
           /\ pc = "join" => (AllJoined \/ \E w \in Workers : CanStep(w))
           /\ pc = "loop" => Len(steps) = nr_rounds
           /\ nr_rounds <= Min(max_steps, InitialCandidates)

\* C12: from the start of solve_stepwise on, no transition of any variant
\* shortens CurrentStructure, and CurrentStructure grows by exactly as many
\* cells as steps are appended, at most one at a time.
C12_OneCellPerStep ==
    [][pc # "constructed"
          => /\ Len(current_struct') >= Len(current_struct)
             /\ Len(steps') - Len(steps) \in {0, 1}
             /\ Len(current_struct') - Len(current_struct)
                  = Len(steps') - Len(steps)]_vars

\* a run of the strategies variant that has committed a naked or hidden
\* single and then a random pick: two steps, two cells more
C12_Witness ==
    /\ variant = "strategies"
    /\ last_round.kind = "random"
    /\ Len(steps) = 2
    /\ steps[1].used_cells # steps[2].used_cells
    /\ Len(current_struct) = Len(given) + 2

\* C13: in a fresh run the i-th recorded step carries step number i.
C13_StepNumbersConsecutive ==
    \A i \in DOMAIN steps : steps[i].step_nr = i

\* three steps recorded by a run that went through a strategy hit and a
\* random pick
C13_Witness ==
    /\ variant = "strategies"
    /\ Len(steps) = 3
    /\ last_round.kind \in {"naked_single", "hidden_single"}
    /\ \E i \in 1..2 : \A k \in DOMAIN steps[i].used_cells :
           steps[i].used_cells[k].cells = <<>>

\* C14: CurrentStructure never holds two cells of the same position, and
\* so never the same cell twice.
C14_CurrentIsAssignment ==
    \A i, j \in DOMAIN current_struct :
        (current_struct[i][1] = current_struct[j][1]
            /\ current_struct[i][2] = current_struct[j][2]) => i = j

\* the positions the tasks of a queue are about
TaskPositions(q) == {<<q[k].cell[1], q[k].cell[2]>> : k \in DOMAIN q}

\* the positions of the first k candidates of tc
FirstPositions(tc, k) == {<<tc[i].cell[1], tc[i].cell[2]>> : i \in 1..k}

\* the tasks of q are the task sets of exactly the first k candidates of tc
SubmitsFirst(v, q, tc, k) ==
    /\ Len(q) = k * TasksPerCell(v)
    /\ TaskPositions(q) = FirstPositions(tc, k)

\* C15: a queue filled before any greedy step was committed holds the task
\* set of every candidate, whatever the threshold.
C15_RoundOneSubmitsAll ==
    (pc = "filled" /\ ~first_step_done)
        => SubmitsFirst(variant, input_queue, to_calculate, Len(to_calculate))

\* a first round with threshold 0 and several candidates, all submitted
C15_Witness ==
    /\ pc = "filled"
    /\ ~first_step_done
    /\ selective_threshold = 0
    /\ variant = "detailed"
    /\ Len(to_calculate) = 3
    /\ TaskPositions(input_queue) = FirstPositions(to_calculate, 3)

\* C16: a queue the baseline or the aggregate variant fills after the first
\* committed greedy step holds the task sets of exactly the first
\* ceil(t / 100 * n) of the n candidates sorted by cost, so no candidate
\* submitted has a higher cost than one left out.
C16_ThresholdSubmitsCheapest ==
    (pc = "filled" /\ first_step_done /\ variant \in {"zebratutor", "detailed"})
        => LET n == Len(to_calculate)
               k == ExactCeil(selective_threshold, n)
           IN  /\ SubmitsFirst(variant, input_queue, to_calculate, k)
               /\ \A i \in 1..k : \A j \in (k + 1)..n :
                      ~CostLess(to_calculate[j].cost, to_calculate[i].cost)

\* C17: a queue the minimization-based variant fills after the first
\* committed step holds the tasks of exactly the first ceil(t / 100 * n)
\* candidates.
C17_ThresholdBoundsAlternative ==
    (pc = "filled" /\ first_step_done /\ variant = "alternative")
        => SubmitsFirst(variant, input_queue, to_calculate,
                        ExactCeil(selective_threshold, Len(to_calculate)))

\* C18: in a greedy round begun before any greedy step was committed no
\* timer is armed and no stop signal raised, and when the workers have all
\* ended every submitted task has been taken and its result collected.
C18_NoDeadlineInRoundOne ==
    (pc = "join" /\ ~first_step_done)
        => /\ timer = "off"
           /\ \A w \in Workers : ~stop_event[w]
           /\ AllJoined
                => LET tasks == FillInputQueueOf(variant, to_calculate, FALSE,
                                                 selective_threshold)
                   IN  /\ input_queue = <<>>
                       /\ Len(output_queue) = Len(tasks)
                       /\ {output_queue[k].cell : k \in DOMAIN output_queue}
                            = {tasks[k].cell : k \in DOMAIN tasks}

\* a first round of two workers and three tasks, ended with three results
C18_Witness ==
    /\ pc = "join"
    /\ ~first_step_done
    /\ nr_threads = 2
    /\ AllJoined
    /\ Len(output_queue) = 3

Evaluates ==
    /\ pc \in {"join", "sjoin"}
    /\ pc' \notin {"join", "sjoin"} \/ steps' # steps

\* C20: when the driver takes up the results of a round every worker of the
\* round has ended and holds no task, and while the driver is between
\* rounds no worker is running, so none is when the next round dispatches.
C20_RoundsDoNotOverlap ==
    [][/\ Evaluates
            => \A w \in Workers : wpc[w] = "done" /\ witem[w] = NoItem
       /\ pc \notin {"join", "sjoin"}
            => \A w \in Threads : wpc[w] = "idle" /\ witem[w] = NoItem]_vars

\* the second round of two workers, all ended after the deadline fired
\* with a task left in the queue
C20_Witness ==
    /\ pc = "join"
    /\ nr_rounds = 2
    /\ Len(steps) = 1
    /\ nr_threads = 2
    /\ timer = "fired"
    /\ AllJoined
    /\ input_queue # <<>>

\* C21: from dispatch until the driver takes up the results nothing but the
\* queues, the workers' own position and the stop flags changes: the
\* Candidate list, CurrentStructure, step_nr and the recorded steps stay as
\* they are, and a worker's step leaves the stop flags and the timer alone.
C21_WorkersLeavePuzzle ==
    [][(pc \in {"join", "sjoin"} /\ ~Evaluates)
          => /\ UNCHANGED <<to_calculate, current_struct, step_nr, steps>>
             /\ UNCHANGED <<config, puzzle, pc, trying>>
             /\ wpc' # wpc => UNCHANGED <<stop_event, timer>>]_vars

\* two workers at work, a result of non-zero cost already in the output
\* queue, and every candidate still at the cost it was dispatched with
C21_Witness ==
    /\ pc = "join"
    /\ nr_threads = 2
    /\ \E w \in Workers : wpc[w] = "call"
    /\ \E k \in DOMAIN output_queue :
          /\ ResultCost(output_queue, k) # 0
          /\ \E i \in DOMAIN to_calculate :
                /\ to_calculate[i].cell = output_queue[k].cell
                /\ to_calculate[i].cost = Inf

\* the proofs a round returned for the position of cell, joined as they
\* arrived
RECURSIVE ProofsAt(_, _)
ProofsAt(results, cell) ==
    IF results = <<>> THEN <<>>
    ELSE (IF Head(results).cell[1] = cell[1] /\ Head(results).cell[2] = cell[2]
          THEN Head(results).core ELSE <<>>)
         \o ProofsAt(Tail(results), cell)

\* the non-zero costs a round of the variant v obtained for the candidate
\* cell: per result, or for the aggregate variant of the joined proofs
Obtained(v, results, cell) ==
    IF v = "detailed"
    THEN {get_core_cost(ProofsAt(results, cell))} \ {0}
    ELSE {c \in {IF v = "alternative" THEN Len(results[k].core)
                                      ELSE ResultCost(results, k) :
                    k \in {j \in DOMAIN results : results[j].cell = cell}} :
             c # 0}

\* the cost stored in tc for cell
StoredCosts(tc, cell) == {tc[i].cost : i \in {j \in DOMAIN tc : tc[j].cell = cell}}

\* C22: after a greedy round has been processed, the stored cost of every
\* remaining candidate is the non-zero cost the round obtained for it, or,
\* if there was none, the cost stored before the round.
C22_StoredCostUpdate ==
    (last_round.kind = "greedy" /\ pc \notin {"join", "sjoin"})
        => \A i \in DOMAIN to_calculate :
              LET cell == to_calculate[i].cell
                  got == Obtained(variant, last_round.results, cell)
              IN  IF got # {} THEN to_calculate[i].cost \in got
                  ELSE to_calculate[i].cost \in StoredCosts(last_round.before, cell)

\* after the second round a candidate still carries the cost of the first
\* round, because its call of the second round failed
C22_Witness ==
    /\ variant = "zebratutor"
    /\ last_round.kind = "greedy"
    /\ nr_rounds = 2
    /\ pc = "loop"
    /\ \E i \in DOMAIN to_calculate :
          /\ to_calculate[i].cost = 4
          /\ \E k \in DOMAIN last_round.results :
                /\ last_round.results[k].cell = to_calculate[i].cell
                /\ ResultCost(last_round.results, k) = 0

\* the cost a round of the variant v gives to its k-th result: the cost of
\* its proof, the size of its ignore-set, or for the aggregate variant the
\* cost of the joined proofs of its position
RoundCost(v, results, k) ==
    IF v = "alternative" THEN Len(results[k].core)
    ELSE IF v = "detailed"
         THEN get_core_cost(ProofsAt(results, results[k].cell))
         ELSE ResultCost(results, k)

\* the results of a round with the least non-zero cost
MinScored(v, results) ==
    LET cost == [k \in DOMAIN results |-> RoundCost(v, results, k)] \o <<>>
        scored == {k \in DOMAIN results : cost[k] # 0}
    IN  {k \in scored : \A j \in scored : cost[k] <= cost[j]}

Least(S) == CHOOSE x \in S : \A y \in S : x <= y

SamePosition(a, b) == a[1] = b[1] /\ a[2] = b[2]

\* C23 as stated: in every greedy variant the committed cell is the cell of
\* the first-arrived result among those of least non-zero cost.
C23_FirstArrivalWins ==
    (variant \in GreedyVariants /\ GreedyCommitted /\ pc # "join")
        => LET least == MinScored(variant, last_round.results)
           IN  least # {}
                 => SamePosition(last_round.results[Least(least)].cell,
                                 LastStep.cell)

\* C23 amended: the baseline and the minimization variant commit the
\* first-arrived result of least non-zero cost; the aggregate variant
\* commits, among the candidates of least non-zero cost, the one that
\* comes first in the Candidate list.
C23_TieBreak ==
    (variant \in GreedyVariants /\ GreedyCommitted /\ pc # "join")
        => LET least == MinScored(variant, last_round.results)
               first == {i \in DOMAIN last_round.before :
                           \E k \in least :
                              SamePosition(last_round.results[k].cell,
                                           last_round.before[i].cell)}
           IN  least # {}
                 => IF variant = "detailed"
                    THEN LastStep.cell = last_round.before[Least(first)].cell
                    ELSE LastStep.cell = last_round.results[Least(least)].cell

\* the aggregate variant committed the first candidate of the list although
\* the result of the second candidate, of the same cost, arrived first
C23_Witness ==
    /\ variant = "detailed"
    /\ GreedyCommitted
    /\ Cardinality(MinScored(variant, last_round.results)) = 2
    /\ Len(last_round.before) = 2
    /\ SamePosition(last_round.results[1].cell, last_round.before[2].cell)
    /\ LastStep.cell = last_round.before[1].cell

\* the stored costs of a Candidate list, whatever its order
StoredSet(tc) == {<<tc[i].cell, tc[i].cost>> : i \in DOMAIN tc}

\* what a round commits and stores when it processes results for tc
Outcome(v, results, tc) ==
    LET r == ProcessOutputQueueOf(v, results, tc)
        e == PickEasiest(r.easiest_step, r.to_calculate)
    IN  IF AddStepRaises(v, e)
        THEN [raised |-> TRUE, cell |-> NoneCell,
              stored |-> StoredSet(r.to_calculate)]
        ELSE [raised |-> FALSE, cell |-> e.cell,
              stored |-> StoredSet(RemoveCell(r.to_calculate, e.cell))]

\* what the last round committed and stored
LastOutcome ==
    [raised |-> pc = "error",
     cell |-> IF pc = "error" THEN NoneCell ELSE LastStep.cell,
     stored |-> StoredSet(to_calculate)]

\* the tasks of the last round
LastTasks ==
    FillInputQueueOf(variant, last_round.before, last_round.done,
                     selective_threshold)

\* the cells of the tasks the last round did not evaluate
LastMissing ==
    {LastTasks[k].cell : k \in DOMAIN LastTasks}
        \ {last_round.results[k].cell : k \in DOMAIN last_round.results}

\* the results of the tasks of the last round, in the order of the tasks,
\* under an oracle that answers as it did in the round and answers g for
\* the tasks the round did not evaluate
FullResults(g) ==
    [k \in DOMAIN LastTasks |->
        [core |-> IF LastTasks[k].cell \in LastMissing
                  THEN g[LastTasks[k].cell]
                  ELSE LastCore(last_round.results, LastTasks[k].cell),
         cell |-> LastTasks[k].cell]]

\* the last round was a greedy round of one worker with threshold 100, and
\* no round has been started since
OneWorkerRound ==
    /\ variant \in GreedyVariants
    /\ last_round.kind = "greedy"
    /\ pc # "join"
    /\ nr_threads = 1
    /\ selective_threshold = MaxPercent

\* whatever a deterministic oracle answers for the tasks not evaluated, the
\* round ends as the evaluation of all its tasks in their order ends
SameAsFullRound ==
    \A g \in [LastMissing -> Answers(IF variant = "alternative"
                                     THEN "get_ignored_cells"
                                     ELSE "get_unsat_core")] :
        LastOutcome = Outcome(variant, FullResults(g), last_round.before)

\* C24 as stated: with one worker and threshold 100, in the first round and
\* in every later round, the stored costs and the committed cell are a
\* function of the state before the round and of the oracle's answers.
C24_OneWorkerDeterministic == OneWorkerRound => SameAsFullRound

\* C24 amended: with one worker and threshold 100, the stored costs and the
\* committed cell are a function of the state before the round and of the
\* oracle's answers in the first round, and in a later round as long as
\* the deadline does not fire during the round.
C24_DeterministicUnlessStopped ==
    (OneWorkerRound /\ ~last_round.stopped) => SameAsFullRound

\* a later round of one worker evaluated two tasks with the deadline armed
\* and not fired
C24_Witness ==
    /\ OneWorkerRound
    /\ last_round.done
    /\ ~last_round.stopped
    /\ pc = "loop"
    /\ Len(last_round.results) >= 2
    /\ LastMissing = {}

\* the proofs costed by CostApply: the two given and their concatenation
Costed ==
    <<output_queue[1].core, output_queue[2].core,
      output_queue[1].core \o output_queue[2].core>>

\* C25: for two non-empty proofs and any set of active rule keywords, the
\* cost of their concatenation is at least the lesser of their costs.
C25_CostMonotone ==
    pc = "costed"
        => \/ to_calculate[3].cost >= to_calculate[1].cost
           \/ to_calculate[3].cost >= to_calculate[2].cost

\* two proofs of different non-zero costs, and their concatenation costs
\* more than either
C25_Witness ==
    /\ pc = "costed"
    /\ to_calculate[1].cost > 0
    /\ to_calculate[2].cost > to_calculate[1].cost
    /\ to_calculate[3].cost > to_calculate[2].cost

\* the grid positions an atom refers to: its arguments in pairs, a single
\* last argument left out
PairsOf(a) ==
    {<<a.args[2 * i - 1], a.args[2 * i]>> : i \in 1..(Len(a.args) \div 2)}

\* the grid positions referenced by the gridValue atoms of a proof and by
\* its atoms of the active keywords
Referenced(core, keywords) ==
    UNION {PairsOf(core[i]) :
             i \in {k \in DOMAIN core :
                       core[k].kw \in Range(keywords) \cup {"gridValue"}}}

Occurrences(core, kw) == Cardinality({i \in DOMAIN core : core[i].kw = kw})

\* the product over the keywords kws of (occurrences in the proof + 1)
RECURSIVE KeywordProduct(_, _)
KeywordProduct(core, kws) ==
    IF kws = {} THEN 1
    ELSE LET kw == CHOOSE k \in kws : TRUE
         IN  (Occurrences(core, kw) + 1) * KeywordProduct(core, kws \ {kw})

\* C26: the cost of a proof under the active keywords is the number of
\* distinct grid positions its gridValue and keyword atoms refer to, times
\* the product over the active keywords of (occurrences + 1); it is not
\* negative, and it is 0 exactly when the proof refers to no position.
C26_ProofSizeCost ==
    pc = "costed"
        => \A i \in DOMAIN Costed :
              LET keywords == get_cost_keywords(rules)
                  positions == Referenced(Costed[i], keywords)
                  cost == to_calculate[i].cost
              IN  /\ cost = Cardinality(positions)
                               * KeywordProduct(Costed[i], Range(keywords))
                  /\ cost >= 0
                  /\ cost = 0 <=> positions = {}

\* a non-empty proof without a position costs 0, and a proof whose atoms
\* share a position costs its three positions times its keyword factors
C26_Witness ==
    /\ pc = "costed"
    /\ rules["normal"]
    /\ to_calculate[1].cost = 0
    /\ Cardinality(Referenced(Costed[2], get_cost_keywords(rules))) = 3
    /\ Len(Costed[2]) = 2
    /\ to_calculate[2].cost = 12

\* C27: after a round of the minimization variant that collected results,
\* the committed cell is the cell of a result whose ignore-set is the
\* smallest of the round, an empty ignore-set included.
C27_SmallestIgnoreSetWins ==
    (variant = "alternative" /\ last_round.kind = "greedy"
        /\ last_round.results # <<>>)
        => /\ pc # "error"
           /\ \E k \in DOMAIN last_round.results :
                 /\ last_round.results[k].cell = LastStep.cell
                 /\ \A j \in DOMAIN last_round.results :
                       Len(last_round.results[k].core)
                           <= Len(last_round.results[j].core)

\* how many tasks of the running round are for cell: waiting, being
\* evaluated or answered
TaskCount(cell) ==
    Cardinality({k \in DOMAIN input_queue : input_queue[k].cell = cell})
    + Cardinality({w \in Workers : witem[w].cell = cell})
    + Cardinality({k \in DOMAIN output_queue : output_queue[k].cell = cell})

\* the candidates of the running round that have a task
Submitted ==
    {i \in DOMAIN to_calculate :
        \E j \in Values :
           TaskCount(<<to_calculate[i].cell[1], to_calculate[i].cell[2], j>>) > 0}

\* the tasks of the running round are, for every submitted candidate
\* (r, c, v), one call of get_unsat_core asserting (r, c) = j per value
\* j # v and none for v; in the first round every candidate is submitted
AggregateTasks ==
    /\ \A i \in Submitted :
          \A j \in Values :
             TaskCount(<<to_calculate[i].cell[1], to_calculate[i].cell[2], j>>)
                = IF j = to_calculate[i].cell[3] THEN 0 ELSE 1
    /\ \A k \in DOMAIN input_queue :
          /\ input_queue[k].fn = "get_unsat_core"
          /\ ~input_queue[k].negate
          /\ \E i \in DOMAIN to_calculate :
                SamePosition(input_queue[k].cell, to_calculate[i].cell)
    /\ ~first_step_done => Submitted = DOMAIN to_calculate

\* the proof-size cost of the proofs the last round returned for the
\* position of cell, concatenated
MergedCost(cell) == get_core_cost(ProofsAt(last_round.results, cell))

\* the last round stored with every remaining candidate the non-zero cost
\* of the concatenated proofs of its position, and committed a candidate
\* of which that cost is the least
AggregateMerge ==
    /\ \A i \in DOMAIN to_calculate :
          MergedCost(to_calculate[i].cell) # 0
              => to_calculate[i].cost = MergedCost(to_calculate[i].cell)
    /\ \A i \in DOMAIN last_round.before :
          MergedCost(last_round.before[i].cell) # 0
              => /\ MergedCost(LastStep.cell) # 0
                 /\ MergedCost(LastStep.cell)
                       <= MergedCost(last_round.before[i].cell)

\* C28: the aggregate variant builds for every submitted candidate
\* (r, c, v) exactly one task per value j # v, asserting (r, c) = j, and
\* none for v; it merges the results by position, the cost of a candidate
\* being the proof-size cost of the concatenated proofs of its position.
C28_AggregateTasksAndMerge ==
    /\ pc = "join" => AggregateTasks
    /\ (last_round.kind = "greedy" /\ pc # "join") => AggregateMerge

\* with the values 1..9 the eight proofs of the open cell were merged into
\* a cost no single proof has, and a round with two candidates left the
\* merged cost of two proofs with the candidate it did not commit
C28_Witness ==
    /\ last_round.kind = "greedy"
    /\ pc \in {"done", "aborted"}
    /\ \/ /\ nr_values = GridSide
          /\ Len(last_round.results) = GridSide - 1
          /\ MergedCost(LastStep.cell) = 2 * GridSide
       \/ /\ nr_values = MaxValue + 1
          /\ Len(last_round.results) = 2 * MaxValue
          /\ \E i \in DOMAIN to_calculate : to_calculate[i].cost = 2 * nr_values

\* the answer of the detector asked last
LastQuery == queried[Len(queried)]

\* C29: next_step of StrategiesSolver and HybridSolver asks the naked
\* single detector first, the hidden single detector only after the first
\* found nothing, and falls back (random pick, greedy round) only after
\* both found nothing; after a hit it commits cells the detector found,
\* with tasks for no other candidate and no fallback.
C29_StrategyPriority ==
    variant \in {"strategies", "hybrid"}
        => /\ queried # NoQuery => queried[1].name = "naked_single"
           /\ Len(queried) > 1
                 => /\ Len(queried) = 2
                    /\ queried[1].found = <<>>
                    /\ queried[2].name = "hidden_single"
           /\ (pc = "join" \/ (last_round.kind \in {"random", "greedy"}
                                 /\ pc \in {"loop", "done", "aborted", "error"}))
                 => queried = BothMissed
           /\ pc = "sjoin"
                 => /\ LastQuery.found # <<>>
                    /\ LastQuery.name = strategy
                    /\ <<the_cell[1], the_cell[2]>> \in Range(LastQuery.found)
                    /\ \A k \in DOMAIN input_queue :
                          SamePosition(input_queue[k].cell, the_cell)
           /\ (last_round.kind \in {"naked_single", "hidden_single"}
                 /\ pc \in {"loop", "done", "aborted"})
                 => /\ LastQuery.name = last_round.kind
                    /\ <<LastStep.cell[1], LastStep.cell[2]>> \in Range(LastQuery.found)
                    /\ \A k \in DOMAIN last_round.results :
                          SamePosition(last_round.results[k].cell, LastStep.cell)

\* the hybrid solver committed a hidden single after the naked single
\* detector found nothing, with another candidate left unexamined
C29_Witness ==
    /\ variant = "hybrid"
    /\ pc = "loop"
    /\ last_round.kind = "hidden_single"
    /\ Len(queried) = 2
    /\ Len(last_round.before) > 1
    /\ last_round.results # <<>>

\* C30: when both detectors miss, the step of StrategiesSolver appends
\* exactly one Step; its cell is a candidate, a cell of CompleteStructure
\* not in CurrentStructure, and its used_cells has one entry per value
\* other than the cell's value, each with an empty cell list.
C30_RandomFallback ==
    [][(variant = "strategies" /\ LoopContinue /\ queried' = BothMissed)
          => /\ Len(steps') = Len(steps) + 1
             /\ SubSeq(steps', 1, Len(steps)) = steps
             /\ LET step == steps'[Len(steps')]
                IN  /\ step.cell \in CandidateCells
                    /\ step.cell \in Range(complete_struct)
                    /\ step.cell \notin Range(current_struct)
                    /\ current_struct' = Append(current_struct, step.cell)
                    /\ Len(step.used_cells) = nr_values - 1
                    /\ {step.used_cells[k].value : k \in DOMAIN step.used_cells}
                          = Values \ {step.cell[3]}
                    /\ \A k \in DOMAIN step.used_cells :
                          step.used_cells[k].cells = <<>>]_vars

\* a random pick among several candidates was committed
C30_Witness ==
    /\ variant = "strategies"
    /\ last_round.kind = "random"
    /\ queried = BothMissed
    /\ pc = "loop"
    /\ Len(last_round.before) > 1
    /\ LastStep.cell \in {last_round.before[i].cell : i \in DOMAIN last_round.before}

\* C31: when a Step is committed every Step recorded before it has been
\* saved, and at DONE or ABORTED the saved Solution is the recorded one.
C31_PersistPerCommit ==
    /\ [][steps' # steps => saved = steps]_vars
    /\ [](pc \in {"done", "aborted"} => saved = steps)

\* C32: no transition removes, reorders or changes a recorded Step: the
\* Steps recorded before it are the first Steps after it, with the same
\* step_nr, cell, used_cells and current_structure.
C32_StepsAppendOnly ==
    [][/\ Len(steps') >= Len(steps)
       /\ SubSeq(steps', 1, Len(steps)) = steps]_vars

\* a resumed run recorded two Steps after the loaded one, whose snapshot
\* is shorter than CurrentStructure has become
C32_Witness ==
    /\ nr_loaded = 1
    /\ Len(steps) = 3
    /\ Len(steps[2].current_structure) < Len(current_struct)
    /\ Len(steps[2].current_structure) < Len(steps[3].current_structure)

\* the greatest step_nr of the loaded steps
HighestLoaded ==
    CHOOSE n \in {steps[i].step_nr : i \in 1..nr_loaded} :
        \A i \in 1..nr_loaded : steps[i].step_nr <= n

\* C33: the first Step recorded by a run resumed from a loaded Solution
\* carries the greatest step_nr of the loaded Steps plus 1, whatever the
\* order of the loaded list.
C33_ResumeNumbering ==
    (nr_loaded > 0 /\ Len(steps) > nr_loaded)
        => steps[nr_loaded + 1].step_nr = HighestLoaded + 1

\* what a rejected try_strategy must leave alone: the Steps, the
\* CurrentStructure, the Candidates, the stepNumber, and the detectors and
\* workers, which are not asked anything
BeforeOracle ==
    <<steps, saved, current_struct, to_calculate, step_nr, queried, pool,
      nr_rounds>>

\* C34: add_rule either activates one of 'normal', 'thermo', 'killer' or
\* raises UnsupportedRule with the active rules as they were; try_strategy
\* with an unknown name raises with Steps, CurrentStructure, Candidates and
\* stepNumber as they were and no detector or worker asked.
C34_UnsupportedIsSideEffectFree ==
    [][/\ pc' = "UnsupportedRule" /\ pc # "UnsupportedRule" => rules' = rules
       /\ rules' # rules =>
              \E r \in Range(RuleOrder) : rules' = [rules EXCEPT ![r] = TRUE]
       /\ pc' = "Exception" /\ pc # "Exception" =>
              BeforeOracle' = BeforeOracle]_vars

\* both rejections happen: an unknown rule, and an unknown strategy in the
\* middle of a run
C34_Witness ==
    \/ pc = "UnsupportedRule" /\ rules["thermo"] /\ ~rules["normal"]
    \/ pc = "Exception" /\ steps # <<>> /\ to_calculate # <<>>

\* how many results the last round collected for the position of cell
CollectedAt(cell) ==
    Cardinality({k \in DOMAIN last_round.results :
                    SamePosition(last_round.results[k].cell, cell)})

\* C35: in the aggregate variant a candidate gets a non-zero cost from a
\* round, and so can win it, only if the round collected the results of
\* all its excluded values (nr_values - 1 of them).
C35_AggregateComplete ==
    (variant = "detailed" /\ last_round.kind = "greedy" /\ pc # "join")
        => \A i \in DOMAIN last_round.before :
              MergedCost(last_round.before[i].cell) # 0
                  => CollectedAt(last_round.before[i].cell) = nr_values - 1

\* how many cells a returned try_strategy(name) that found the cells found
\* is to commit
BatchSize(name, found) == IF name = "hidden_single" THEN 1 ELSE Len(found)

\* the k-th of the last n recorded Steps
BatchStep(n, k) == steps[Len(steps) - n + k]

\* the last n Steps are the cells found[1..n] with their values of the
\* complete structure, numbered up to step_nr - 1, each snapshot the one
\* before it plus the cell before it, and the cells found beyond n are
\* still empty
BatchCommitted(found, n) ==
    /\ Len(steps) >= n
    /\ \A k \in 1..n :
          /\ BatchStep(n, k).cell
                = <<found[k][1], found[k][2], get_value(complete_struct, found[k])>>
          /\ BatchStep(n, k).step_nr = step_nr - n + k - 1
          /\ k < n => BatchStep(n, k + 1).current_structure
                         = Append(BatchStep(n, k).current_structure,
                                  BatchStep(n, k).cell)
    /\ current_struct = Append(BatchStep(n, n).current_structure,
                               BatchStep(n, n).cell)
    /\ \A k \in (n + 1)..Len(found) : is_empty(current_struct, found[k])

\* C36: a try_strategy('hidden_single') that found cells has committed one
\* Step, for the first cell found, and left the other cells empty; a
\* try_strategy('naked_single') has committed one Step per cell found, in
\* the order found, with consecutive step numbers and a growing snapshot.
C36_BatchSize ==
    (queried # NoQuery /\ pc # "sjoin" /\ LastQuery.found # <<>>)
        => BatchCommitted(LastQuery.found,
                          BatchSize(LastQuery.name, LastQuery.found))

\* after a first Step, two naked singles were committed as two Steps, or of
\* two hidden singles one was committed
C36_Witness ==
    /\ queried # NoQuery
    /\ pc = "loop"
    /\ Len(LastQuery.found) = 2
    /\ \/ LastQuery.name = "naked_single" /\ Len(steps) = 3
       \/ /\ LastQuery.name = "hidden_single"
          /\ Len(steps) = 2
          /\ is_empty(current_struct, LastQuery.found[2])

\* the tasks submitted to the running round
RoundTasks ==
    IF pc = "join"
    THEN FillInputQueueOf(variant, to_calculate, first_step_done,
                          selective_threshold)
    ELSE StrategyTasks(the_cell)

\* no worker of the running round takes another step
RoundAtRest == \A w \in Workers : ~CanStep(w)

\* C37: a stop flag is set only inside a greedy round whose own Timer has
\* fired; a Timer exists only inside a greedy round after the first Step,
\* so it is gone once the workers have joined; and a round whose Timer has
\* not fired comes to rest only with a result for every submitted task.
C37_NoStopLeak ==
    /\ \A w \in Threads : stop_event[w] => (pc = "join" /\ timer = "fired")
    /\ timer # "off" => (pc = "join" /\ first_step_done)
    /\ (pc \in {"join", "sjoin"} /\ timer # "fired" /\ RoundAtRest)
          => Len(output_queue) = Len(RoundTasks)

\* the round before was stopped by its Timer; the Timer of the running
\* round has not fired and all its tasks have been evaluated
C37_Witness ==
    /\ last_round.stopped
    /\ pc = "join"
    /\ timer = "armed"
    /\ AllJoined
    /\ output_queue # <<>>
    /\ Len(output_queue) = Len(RoundTasks)

\* the cells of the tasks submitted to the running round
RoundCells == {RoundTasks[k].cell : k \in DOMAIN RoundTasks}

\* every task of the running round is at one place: waiting in the queue,
\* held by one worker, or answered by one result; and nothing else is
ExactlyOnce ==
    /\ \A c \in RoundCells : TaskCount(c) = 1
    /\ Len(input_queue) + Cardinality({w \in Workers : witem[w] # NoItem})
          + Len(output_queue) = Len(RoundTasks)

\* how many tasks the last round had
LastSubmitted ==
    IF last_round.kind = "greedy" THEN Len(LastTasks) ELSE nr_values - 1

\* C38: in a running round every submitted task is waiting, held by exactly
\* one worker or answered by exactly one result, for any number of workers;
\* a round that ended without a stop signal collected as many results as
\* it had tasks.
C38_ExactlyOnce ==
    /\ pc \in {"join", "sjoin"} => ExactlyOnce
    /\ (last_round.kind \notin {"none", "random"} /\ ~last_round.stopped
           /\ pc # "join")
          => Len(last_round.results) = LastSubmitted

\* two workers have evaluated the two tasks of a round between them, one
\* after the other put its result, and the round before collected two
C38_Witness ==
    /\ nr_threads = 2
    /\ pc = "join"
    /\ Len(RoundTasks) = 2
    /\ Len(output_queue) = 2
    /\ wpc[1] = "check" /\ wpc[2] = "check"
    /\ last_round.kind # "none"

\* C39: the snapshot of a Step does not hold the Step's own cell, the
\* snapshot of the next Step of the run is the snapshot plus the cell, and
\* so is CurrentStructure after the last Step.
C39_SnapshotTiming ==
    /\ \A k \in (nr_loaded + 1)..Len(steps) :
          /\ steps[k].cell \notin Range(steps[k].current_structure)
          /\ k < Len(steps)
                => steps[k + 1].current_structure
                      = Append(steps[k].current_structure, steps[k].cell)
    /\ Len(steps) > nr_loaded
          => current_struct = Append(LastStep.current_structure, LastStep.cell)

====
